---- MODULE Spec2Model ----
(***************************************************************************)
(* Page-extraction pipeline of vision-parse: VisionParser.convert_file     *)
(* (parser.py) driving one asyncio task per page (_convert_page), each     *)
(* running LLM.generate_markdown (llm.py) over the retry-decorated model   *)
(* call LLM._gemini.                                                       *)
(*                                                                         *)
(* One parser instance converts one input file: once under Spec, MaxRuns   *)
(* times in a row under SpecRepeat.  The model stub is deterministic: its  *)
(* answer to the structured call of page p is drawn when the call is first *)
(* answered and kept in stub[p] from then on; its answer to the freeform   *)
(* call is a function of (page, prompt).  Failures of attempts are         *)
(* transient: how many leading attempts of a call fail (its plan) is drawn *)
(* when the first attempt fails.                                           *)
(***************************************************************************)
EXTENDS Integers, Sequences, FiniteSets, TLC

\* ---- bounds of the model ------------------------------------------------
MaxPages == 3
MaxWorkers == 2
MaxRuns == 2

\* ---- program constants --------------------------------------------------
\* stop=stop_after_attempt(3)
MaxAttempts == 3

VARIABLES
    enable_concurrency,   \* VisionParser.enable_concurrency / LLM.enable_concurrency
    num_workers,          \* VisionParser.num_workers
    image_mode,           \* LLM.image_mode
    detailed_extraction,  \* LLM.detailed_extraction (mutable flag)
    file,                 \* the input: [exists, suffix, page_count]
    stub,                 \* page -> response of the structured call for that page
    dpc,                  \* position of convert_file
    i,                    \* batch start index / page_number of convert_file
    converted_pages,      \* local list of convert_file
    pending_exc,          \* first exception raised by a page task, not yet propagated
    outcome,              \* what the current/last convert_file call gave its caller
    prev,                 \* outcome of the call before it
    calls_left,           \* convert_file calls the caller will still make
    task,                 \* page -> state of its _convert_page coroutine
    completed,            \* pages of the current call in completion order
    batches,              \* the batches the current call has submitted so far
    gh                    \* page -> history of what the page did in this run

vars == <<enable_concurrency, num_workers, image_mode, detailed_extraction, file,
          stub, dpc, i, converted_pages, pending_exc, outcome, prev, calls_left, task,
          completed, batches, gh>>

config == <<enable_concurrency, num_workers, image_mode, file>>

\* ---- exceptions ---------------------------------------------------------
\* An exception value: its class, the page number its message carries
\* (0 = none; _convert_page writes page_number + 1) and the class of the
\* exception it wraps ("none" = none).
Exc(type, page, cause) == [type |-> type, page |-> page, cause |-> cause]
NoExc == Exc("none", 0, "none")

\* class LLMError(BaseException)
LLMErrorBase == "BaseException"
\* class VisionParserError(BaseException)
VisionParserErrorBase == "BaseException"
\* class UnsupportedFileError(BaseException)
UnsupportedFileErrorBase == "BaseException"

\* isinstance(e, Exception): what an `except Exception` clause catches.
IsException(type) ==
    CASE type = "LLMError" -> LLMErrorBase = "Exception"
      [] type = "VisionParserError" -> VisionParserErrorBase = "Exception"
      [] type = "UnsupportedFileError" -> UnsupportedFileErrorBase = "Exception"
      [] OTHER -> TRUE

\* ---- prompts and markdown ----------------------------------------------
\* _md_prompt_template.render(extracted_text, tables_detected,
\*                            latex_equations_detected, confidence_score_text)
\* (custom_prompt is a fixed suffix of every prompt and left out).
MdPrompt(extracted_text, tables_detected, latex_equations_detected, confidence_score_text) ==
    [extracted_text |-> extracted_text,
     tables_detected |-> tables_detected,
     latex_equations_detected |-> latex_equations_detected,
     confidence_score_text |-> confidence_score_text]

\* The prompt of the simple / fallback path.
DefaultPrompt == MdPrompt("", "Yes", "No", 0)

NoPrompt == MdPrompt("", "", "", 0)

\* The ImageDescription the stub decodes to for page p; confidence in percent.
PageText(p) == "text of page " \o ToString(p)

Description(text_detected, images_detected, p) ==
    [valid |-> TRUE,
     text_detected |-> text_detected,
     tables_detected |-> IF p % 2 = 0 THEN "Yes" ELSE "No",
     images_detected |-> images_detected,
     latex_equations_detected |-> IF p % 2 = 0 THEN "No" ELSE "Yes",
     extracted_text |-> PageText(p),
     confidence_score_text |-> 90]

\* A response that ImageDescription.model_validate_json rejects.
InvalidJson(p) == [Description("No", "No", p) EXCEPT !.valid = FALSE]

\* stub[p] before the structured call of page p was ever answered.
Unasked(p) == [Description("?", "?", p) EXCEPT !.valid = FALSE]

Responses(p) ==
    {InvalidJson(p), Description("No", "No", p), Description("No", "Yes", p),
     Description("Yes", "No", p), Description("Yes", "Yes", p)}

\* Markdown is a sequence of tokens; "" is the empty sequence.
Token(kind, page, prompt, label, target) ==
    [kind |-> kind, page |-> page, prompt |-> prompt, label |-> label, target |-> target]

\* response.text of the freeform call: a function of the image and the prompt.
FreeformText(p, prompt) == <<Token("text", p, prompt, "", "")>>


\* ImageData.extract_images(pix, image_mode, page_number): the embedded images
\* of the page, each with a locator and an inline payload.
ExtractImages(p, mode) ==
    <<[image_url |-> "image_" \o ToString(p + 1) \o "_1",
       base64_encoded |-> "payload_" \o ToString(p + 1) \o "_1"]>>

\* Every reference pointing at the image location, whatever the mode.
ImageRefsAlwaysUrl(extracted_images, mode) ==
    IF mode \in {"url", "base64"}
    THEN [k \in 1..Len(extracted_images) |->
            Token("ref", 0, NoPrompt, extracted_images[k].image_url,
                  extracted_images[k].image_url)]
    ELSE <<>>

\* The references generate_markdown appends after the markdown text.
ImageRefs(extracted_images, mode) ==
    IF mode = "url"
    THEN [k \in 1..Len(extracted_images) |->
            Token("ref", 0, NoPrompt, extracted_images[k].image_url,
                  extracted_images[k].image_url)]
    ELSE IF mode = "base64"
    THEN [k \in 1..Len(extracted_images) |->
            Token("ref", 0, NoPrompt, extracted_images[k].image_url,
                  extracted_images[k].base64_encoded)]
    ELSE <<>>

\* ---- the retry decorator around _gemini ---------------------------------
\* A retry predicate without exception filter and without stop condition.
RetryForever(type, attempt) == TRUE

\* tenacity's default retry predicate retries an attempt that raised an
\* instance of Exception, until stop_after_attempt(3) says stop.
RetryAgain(type, attempt) == IsException(type) /\ attempt < MaxAttempts

\* What one attempt of _gemini raises when the client call fails:
\* `except Exception as e: raise LLMError(...)`.
GeminiError == Exc("LLMError", 0, "ClientError")

\* ---- generate_markdown ---------------------------------------------------
\* The early return left out.
NeverShortCircuits(response) == FALSE

\* `if json_response.text_detected.strip() == "No": return ""`
ShortCircuits(response) == response.text_detected = "No"

\* Extraction decided by the configured mode alone.
WantsImagesWhenConfigured(response, mode) == mode # "none"

\* `if images_detected == "Yes" and self.image_mode is not None: extract_images`
WantsImages(response, mode) == response.images_detected = "Yes" /\ mode # "none"

\* The prompt rendered from the page's own description.
DetailedPrompt(response) ==
    MdPrompt(response.extracted_text, response.tables_detected,
             response.latex_equations_detected, response.confidence_score_text)

\* `if not self.detailed_extraction: prompt = <defaults>`: the flag is read
\* again after the analysis block, whoever cleared it.
PromptToSend(flag, prompt) == IF ~flag THEN DefaultPrompt ELSE prompt

\* The analysis block entered whatever the flag says.
RunsAnalysisAlways(flag) == TRUE

\* `if self.detailed_extraction:` at the top of generate_markdown.
RunsAnalysis(flag) == flag

\* ---- _convert_page -------------------------------------------------------
\* The except / finally of _convert_page for an exception e raised inside
\* its try: an Exception is wrapped with the 1-based page number; the
\* finally reads pix, which is unbound when rendering itself raised.
ConvertPageExit(e, page_number, pix_bound) ==
    LET raised == IF IsException(e.type)
                  THEN Exc("VisionParserError", page_number + 1, e.type)
                  ELSE e
    IN IF pix_bound THEN raised ELSE Exc("UnboundLocalError", 0, raised.type)

\* ---- convert_file --------------------------------------------------------
\* `except Exception as e: raise VisionParserError(f"...: {str(e)}")`
ConvertFileExcept(e) ==
    IF IsException(e.type) THEN Exc("VisionParserError", e.page, e.type) ELSE e

Min(a, b) == IF a < b THEN a ELSE b

\* range(total_pages) / the single page of an image file.
Pages == 0..(file.page_count - 1)

\* batch_size = min(self.num_workers, total_pages - i)
BatchSize(start) == Min(num_workers, file.page_count - start)

\* Every page of the document submitted at once.
WindowAll == IF dpc \in {"batch", "seq", "image"} THEN Pages ELSE {}

\* The pages whose coroutine the driver is currently waiting for.
Window ==
    CASE dpc = "batch" -> i..(i + BatchSize(i) - 1)
      [] dpc = "seq" -> {i}
      [] dpc = "image" -> {0}
      [] OTHER -> {}

\* Results in the order in which the tasks of the batch completed.
GatherAsCompleted(start, size) ==
    LET InBatch(q) == q \in start..(start + size - 1)
        order == SelectSeq(completed, InBatch)
    IN [k \in 1..Len(order) |-> task[order[k]].result]

\* asyncio.gather(*tasks): results in the order of the tasks.
Gather(start, size) == [k \in 1..size |-> task[start + k - 1].result]

\* gather with return_exceptions=True: returns once every task has ended.
GatherReturnsAnyway ==
    \A p \in Window : task[p].pc \in {"done", "raised"}

\* A wait that returns with the first task that is done.
GatherReturnsFirstDone ==
    /\ pending_exc = NoExc
    /\ \E p \in Window : task[p].pc = "done"

\* `await asyncio.gather(*tasks)` returns: no task raised and all are done.
GatherReturns ==
    /\ pending_exc = NoExc
    /\ \A p \in Window : task[p].pc = "done"

\* Only the non-empty results collected.
ExtendNonEmpty(pages, batch_results) ==
    LET NonEmpty(md) == md # <<>>
    IN pages \o SelectSeq(batch_results, NonEmpty)

\* converted_pages.extend(batch_results)
Extend(pages, batch_results) == pages \o batch_results

\* The loop variable advanced by one page instead of one batch.
NextBatchByOne(start) == start + 1

\* range(0, total_pages, self.num_workers): the next batch start.
NextBatch(start) == start + num_workers

\* batch_pages = [pdf_document[j] for j in range(i, i + batch_size)], as
\* handed to _convert_pages_batch(batch_pages, i).
Submitted(start) == [start |-> start, size |-> BatchSize(start)]

\* Every suffix taken for a supported one.
SupportedAny(suffix) == TRUE

\* `file_path.suffix.lower() not in [".pdf", ".png", ".jpg", ".jpeg"]`
Supported(suffix) == suffix \in {".pdf", ".png", ".jpg", ".jpeg"}

\* Every task of the window has run up to its first suspension point.
AllStarted == \A q \in Window : task[q].pc # "idle"


IdleTask ==
    [pc |-> "idle", attempt |-> 0, plan |-> 0, prompt |-> NoPrompt,
     extracted_images |-> <<>>, result |-> <<>>, exc |-> NoExc]

\* History of a page in the current run.
IdleHist ==
    [started_detailed |-> FALSE, analysis |-> "none", source |-> "none",
     struct_calls |-> 0, struct_attempts |-> 0, free_calls |-> 0,
     free_attempts |-> 0, extract_calls |-> 0, failed_call |-> "none",
     failed_plan |-> 0]

NoOutcome == [status |-> "none", pages |-> <<>>, error |-> NoExc]

\* ---- initial states ------------------------------------------------------
Files ==
    {[exists |-> FALSE, suffix |-> ".pdf", page_count |-> 0],
     [exists |-> FALSE, suffix |-> ".docx", page_count |-> 0],
     [exists |-> TRUE, suffix |-> ".docx", page_count |-> 0],
     [exists |-> TRUE, suffix |-> ".png", page_count |-> 1]}
    \cup {[exists |-> TRUE, suffix |-> ".pdf", page_count |-> n] : n \in 1..MaxPages}

\* A parser as VisionParser.__init__ leaves it, and the file it is given.
Constructed ==
    /\ enable_concurrency \in BOOLEAN
    /\ num_workers \in 1..MaxWorkers
    /\ image_mode \in {"none", "url", "base64"}
    /\ detailed_extraction \in BOOLEAN
    /\ file \in Files
    /\ stub = [p \in Pages |-> Unasked(p)]
    /\ dpc = "ready"
    /\ i = 0
    /\ converted_pages = <<>>
    /\ pending_exc = NoExc
    /\ outcome = NoOutcome
    /\ prev = NoOutcome
    /\ task = [p \in Pages |-> IdleTask]
    /\ completed = <<>>
    /\ batches = <<>>
    /\ gh = [p \in Pages |-> IdleHist]

Init == Constructed /\ calls_left = 1

InitRepeat == Constructed /\ calls_left = MaxRuns

\* ---- convert_file: entry -------------------------------------------------
\* A call of convert_file on the parser, up to the first page it waits for.
ConvertFile ==
    /\ dpc \in {"ready", "returned", "raised"}
    /\ calls_left > 0
    /\ calls_left' = calls_left - 1
    /\ prev' = outcome
    /\ converted_pages' = <<>>
    /\ pending_exc' = NoExc
    /\ i' = 0
    /\ task' = [p \in Pages |-> IdleTask]
    /\ gh' = [p \in Pages |-> IdleHist]
    /\ completed' = <<>>
    /\ IF ~file.exists
       THEN /\ dpc' = "raised"
            /\ outcome' = [status |-> "raised", pages |-> <<>>,
                           error |-> Exc("FileNotFoundError", 0, "none")]
            /\ batches' = <<>>
       ELSE IF ~Supported(file.suffix)
       THEN /\ dpc' = "raised"
            /\ outcome' = [status |-> "raised", pages |-> <<>>,
                           error |-> Exc("UnsupportedFileError", 0, "none")]
            /\ batches' = <<>>
       ELSE /\ outcome' = NoOutcome
            /\ dpc' = IF file.suffix \in {".png", ".jpg", ".jpeg"} THEN "image"
                      ELSE IF enable_concurrency THEN "batch" ELSE "seq"
            /\ batches' = IF file.suffix = ".pdf" /\ enable_concurrency
                                /\ 0 < file.page_count
                          THEN <<Submitted(0)>> ELSE <<>>
    /\ UNCHANGED <<config, stub, detailed_extraction>>

\* ---- the page coroutine --------------------------------------------------
\* The coroutine of page p ends with exception e, raised by `call` whose
\* plan of failing attempts was `plan`.
Raise(p, e, call, plan) ==
    /\ task' = [task EXCEPT ![p] = [IdleTask EXCEPT !.pc = "raised", !.exc = e]]
    /\ pending_exc' = IF pending_exc = NoExc THEN e ELSE pending_exc
    /\ gh' = [gh EXCEPT ![p].failed_call = call, ![p].failed_plan = plan,
                        ![p].started_detailed =
                            IF call = "render" THEN detailed_extraction ELSE @,
                        ![p].analysis = IF call = "structured" THEN "call_failed" ELSE @,
                        ![p].struct_attempts = @ + (IF call = "structured" THEN 1 ELSE 0),
                        ![p].free_attempts = @ + (IF call = "freeform" THEN 1 ELSE 0)]

\* The plans under which the attempt in flight of task record t fails.
FailingPlans(t) ==
    IF t.attempt = 1 THEN 1..MaxAttempts
    ELSE IF t.attempt <= t.plan THEN {t.plan} ELSE {}

\* _convert_page up to its first suspension: render the page, encode it and
\* enter generate_markdown.
PageStart(p) ==
    /\ dpc \in {"batch", "seq", "image"}
    /\ p \in Window
    /\ task[p].pc = "idle"
    /\ \A q \in Window : q < p => task[q].pc # "idle"
    /\ \E raster \in {"ok", "no_pixmap", "no_png"} :
         IF raster # "ok"
         THEN Raise(p, ConvertPageExit(Exc("RuntimeError", 0, "none"), p,
                                       raster = "no_png"), "render", 0)
         ELSE /\ task' = [task EXCEPT
                    ![p].pc = IF RunsAnalysis(detailed_extraction)
                              THEN "analyze" ELSE "generate",
                    ![p].attempt = 1,
                    ![p].prompt = IF RunsAnalysis(detailed_extraction)
                                  THEN NoPrompt
                                  ELSE PromptToSend(detailed_extraction, NoPrompt)]
              /\ gh' = [gh EXCEPT
                    ![p].started_detailed = detailed_extraction,
                    ![p].source = IF RunsAnalysis(detailed_extraction)
                                  THEN "none" ELSE "defaults",
                    ![p].struct_calls = IF RunsAnalysis(detailed_extraction) THEN 1 ELSE 0,
                    ![p].free_calls = IF RunsAnalysis(detailed_extraction) THEN 0 ELSE 1]
              /\ UNCHANGED pending_exc
    /\ UNCHANGED <<config, stub, detailed_extraction, dpc, i, converted_pages,
                   outcome, prev, calls_left, batches, completed>>

\* An attempt of the structured call fails.
AnalyzeFails(p) ==
    /\ dpc \in {"batch", "seq", "image"}
    /\ p \in Window
    /\ AllStarted
    /\ task[p].pc = "analyze"
    /\ \E plan \in FailingPlans(task[p]) :
         IF RetryAgain(GeminiError.type, task[p].attempt)
         THEN /\ task' = [task EXCEPT ![p].attempt = @ + 1, ![p].plan = plan]
              /\ gh' = [gh EXCEPT ![p].struct_attempts = @ + 1]
              /\ UNCHANGED <<pending_exc, detailed_extraction>>
         ELSE IF IsException(GeminiError.type)
         THEN \* `except Exception:` of generate_markdown
              /\ detailed_extraction' = FALSE
              /\ task' = [task EXCEPT ![p].pc = "generate", ![p].attempt = 1,
                                      ![p].plan = 0,
                                      ![p].prompt = PromptToSend(FALSE, NoPrompt)]
              /\ gh' = [gh EXCEPT ![p].struct_attempts = @ + 1,
                                  ![p].analysis = "call_failed",
                                  ![p].source = "defaults",
                                  ![p].free_calls = @ + 1]
              /\ UNCHANGED pending_exc
         ELSE /\ Raise(p, ConvertPageExit(GeminiError, p, TRUE), "structured", plan)
              /\ UNCHANGED detailed_extraction
    /\ UNCHANGED <<config, stub, dpc, i, converted_pages, outcome, prev,
                   calls_left, batches, completed>>

\* The structured call returns the stub's response: lines 137-171 of
\* generate_markdown, up to the freeform call.
AnalyzeReturns(p) ==
    /\ dpc \in {"batch", "seq", "image"}
    /\ p \in Window
    /\ AllStarted
    /\ task[p].pc = "analyze"
    /\ task[p].attempt > task[p].plan
    /\ \E response \in Responses(p) :
         /\ stub[p] \in {Unasked(p), response}
         /\ stub' = [stub EXCEPT ![p] = response]
         /\ IF ~response.valid
            THEN \* model_validate_json raises ValidationError, an Exception
                 /\ detailed_extraction' = FALSE
                 /\ task' = [task EXCEPT ![p].pc = "generate", ![p].attempt = 1,
                                         ![p].plan = 0,
                                         ![p].prompt = PromptToSend(FALSE, NoPrompt)]
                 /\ gh' = [gh EXCEPT ![p].struct_attempts = @ + 1,
                                     ![p].analysis = "invalid",
                                     ![p].source = "defaults",
                                     ![p].free_calls = @ + 1]
                 /\ UNCHANGED <<pending_exc, completed>>
            ELSE IF ShortCircuits(response)
            THEN /\ task' = [task EXCEPT ![p].pc = "done", ![p].attempt = 0,
                                         ![p].plan = 0, ![p].result = <<>>]
                 /\ gh' = [gh EXCEPT ![p].struct_attempts = @ + 1,
                                     ![p].analysis = "no_text"]
                 /\ completed' = Append(completed, p)
                 /\ UNCHANGED <<pending_exc, detailed_extraction>>
            ELSE /\ task' = [task EXCEPT
                       ![p].pc = "generate", ![p].attempt = 1, ![p].plan = 0,
                       ![p].extracted_images =
                           IF WantsImages(response, image_mode)
                           THEN ExtractImages(p, image_mode) ELSE <<>>,
                       ![p].prompt = PromptToSend(detailed_extraction,
                                                  DetailedPrompt(response))]
                 /\ gh' = [gh EXCEPT
                       ![p].struct_attempts = @ + 1,
                       ![p].analysis = "ok",
                       ![p].extract_calls =
                           @ + (IF WantsImages(response, image_mode) THEN 1 ELSE 0),
                       ![p].source =
                           IF PromptToSend(detailed_extraction, DetailedPrompt(response))
                              = DetailedPrompt(response)
                           THEN "description" ELSE "defaults",
                       ![p].free_calls = @ + 1]
                 /\ UNCHANGED <<pending_exc, detailed_extraction, completed>>
    /\ UNCHANGED <<config, dpc, i, converted_pages, outcome, prev, calls_left, batches>>

\* An attempt of the freeform call fails.
GenerateFails(p) ==
    /\ dpc \in {"batch", "seq", "image"}
    /\ p \in Window
    /\ AllStarted
    /\ task[p].pc = "generate"
    /\ \E plan \in FailingPlans(task[p]) :
         IF RetryAgain(GeminiError.type, task[p].attempt)
         THEN /\ task' = [task EXCEPT ![p].attempt = @ + 1, ![p].plan = plan]
              /\ gh' = [gh EXCEPT ![p].free_attempts = @ + 1]
              /\ UNCHANGED pending_exc
         ELSE Raise(p, ConvertPageExit(GeminiError, p, TRUE), "freeform", plan)
    /\ UNCHANGED <<config, stub, detailed_extraction, dpc, i, converted_pages,
                   outcome, prev, calls_left, batches, completed>>

\* The freeform call returns: lines 173-189 of generate_markdown.
GenerateReturns(p) ==
    /\ dpc \in {"batch", "seq", "image"}
    /\ p \in Window
    /\ AllStarted
    /\ task[p].pc = "generate"
    /\ task[p].attempt > task[p].plan
    /\ task' = [task EXCEPT
          ![p] = [IdleTask EXCEPT
                    !.pc = "done",
                    !.result = FreeformText(p, task[p].prompt)
                               \o ImageRefs(task[p].extracted_images, image_mode)]]
    /\ gh' = [gh EXCEPT ![p].free_attempts = @ + 1]
    /\ completed' = Append(completed, p)
    /\ UNCHANGED <<config, stub, detailed_extraction, dpc, i, converted_pages,
                   pending_exc, outcome, prev, calls_left, batches>>

\* ---- convert_file: joins -------------------------------------------------
Return(pages) ==
    /\ dpc' = "returned"
    /\ outcome' = [status |-> "returned", pages |-> pages, error |-> NoExc]

\* gather of the batch returns; the loop extends the list and goes on with
\* the next batch or returns.
BatchJoin ==
    /\ dpc = "batch"
    /\ GatherReturns
    /\ converted_pages' = Extend(converted_pages, Gather(i, BatchSize(i)))
    /\ i' = NextBatch(i)
    /\ IF NextBatch(i) < file.page_count
       THEN /\ batches' = Append(batches, Submitted(NextBatch(i)))
            /\ UNCHANGED <<dpc, outcome>>
       ELSE /\ Return(converted_pages')
            /\ UNCHANGED batches
    /\ UNCHANGED <<config, stub, detailed_extraction, pending_exc, prev,
                   calls_left, task, completed, gh>>

\* asyncio.run of one page returns in the sequential loop.
SeqJoin ==
    /\ dpc = "seq"
    /\ pending_exc = NoExc
    /\ task[i].pc = "done"
    /\ converted_pages' = Append(converted_pages, task[i].result)
    /\ i' = i + 1
    /\ IF i + 1 < file.page_count
       THEN UNCHANGED <<dpc, outcome>>
       ELSE Return(converted_pages')
    /\ UNCHANGED <<config, stub, detailed_extraction, pending_exc, prev,
                   calls_left, batches, task, completed, gh>>

\* asyncio.run of the single page of an image file returns: `return [text]`.
ImageJoin ==
    /\ dpc = "image"
    /\ pending_exc = NoExc
    /\ task[0].pc = "done"
    /\ Return(<<task[0].result>>)
    /\ UNCHANGED <<config, stub, detailed_extraction, i, converted_pages,
                   pending_exc, prev, calls_left, batches, task, completed, gh>>

\* The first exception of a page task leaves asyncio.run and passes the
\* `except Exception` of convert_file.
Propagate ==
    /\ dpc \in {"batch", "seq", "image"}
    /\ pending_exc # NoExc
    /\ AllStarted
    /\ dpc' = "raised"
    /\ outcome' = [status |-> "raised", pages |-> <<>>,
                   error |-> ConvertFileExcept(pending_exc)]
    /\ UNCHANGED <<config, stub, detailed_extraction, i, converted_pages,
                   pending_exc, prev, calls_left, batches, task, completed, gh>>

Next ==
    \/ ConvertFile
    \/ \E p \in Pages : PageStart(p)
    \/ \E p \in Pages : AnalyzeFails(p)
    \/ \E p \in Pages : AnalyzeReturns(p)
    \/ \E p \in Pages : GenerateFails(p)
    \/ \E p \in Pages : GenerateReturns(p)
    \/ BatchJoin
    \/ SeqJoin
    \/ ImageJoin
    \/ Propagate

\* One conversion on a fresh parser.
Spec == Init /\ [][Next]_vars

\* MaxRuns conversions of the same file on the same parser.
SpecRepeat == InitRepeat /\ [][Next]_vars

\* ---- properties ----------------------------------------------------------
Returned == outcome.status = "returned"
Raised == outcome.status = "raised"

\* The first page that does not belong to the batch (or, sequentially, the
\* page) the driver is at.
AfterCurrent == IF enable_concurrency THEN NextBatch(i) ELSE i + 1

\* C1: the returned list holds at position k the result of page k, and a
\* non-empty entry is a text generated from the image of page k, whatever
\* the completion order of the tasks was.
C1_OutputInPageOrder ==
    Returned =>
        /\ Len(outcome.pages) = Cardinality(Pages)
        /\ \A p \in Pages :
             /\ outcome.pages[p + 1] = task[p].result
             /\ outcome.pages[p + 1] # <<>> => outcome.pages[p + 1][1].page = p

\* A concurrent conversion returned although a page with a larger index
\* completed before a page with a smaller one, with different results.
C1_Witness ==
    /\ Returned
    /\ enable_concurrency
    /\ \E j, k \in 1..Len(completed) :
         /\ j < k
         /\ completed[j] > completed[k]
         /\ task[completed[j]].result # task[completed[k]].result

\* C2: a conversion returns a list only if every page produced its result,
\* and then one entry per page; once a page has failed the call never
\* returns a list, a raised call hands out no pages, and no page after the
\* current batch (sequentially: after the current page) ever starts.
C2_AllOrNothing ==
    /\ Returned =>
         /\ Len(outcome.pages) = Cardinality(Pages)
         /\ \A p \in Pages : task[p].pc = "done"
    /\ Raised => outcome.pages = <<>>
    /\ (\E p \in Pages : task[p].pc = "raised") =>
         /\ ~Returned
         /\ \A q \in Pages : q >= AfterCurrent => task[q].pc = "idle"

\* A call raised after a page of an earlier batch had completed, with a page
\* of a later batch never started.
C2_Witness ==
    /\ Raised
    /\ \E p, q, r \in Pages :
         /\ p < q /\ q < r
         /\ task[p].pc = "done"
         /\ p < i
         /\ task[q].pc = "raised"
         /\ task[r].pc = "idle"

\* The analysis of page p failed: its response did not validate, or every
\* attempt of its structured call was bound to fail.
AnalysisFailed(p) ==
    \/ gh[p].analysis = "invalid"
    \/ /\ gh[p].analysis = "call_failed"
       /\ gh[p].failed_call = "structured" => gh[p].failed_plan = MaxAttempts

\* C3: a page whose structured analysis failed, by a failed call or by a
\* response that does not validate, is not failed by it: it makes the
\* freeform call with the prompt of the fixed defaults.
C3_AnalysisFailureFallsBack ==
    \A p \in Pages :
        AnalysisFailed(p) =>
            /\ gh[p].failed_call # "structured"
            /\ gh[p].free_calls = 1
            /\ gh[p].source = "defaults"
            /\ task[p].pc = "generate" => task[p].prompt = DefaultPrompt
            /\ task[p].pc = "done" => task[p].result = FreeformText(p, DefaultPrompt)

\* C4: the flag, once off, stays off; a page that starts while it is off
\* makes no structured call, sends the prompt of the fixed defaults and
\* returns the text generated from it.
C4_StickyFallback ==
    /\ [][~detailed_extraction => ~detailed_extraction']_vars
    /\ [](\A p \in Pages :
            (task[p].pc # "idle" /\ ~gh[p].started_detailed) =>
                /\ gh[p].struct_calls = 0
                /\ gh[p].struct_attempts = 0
                /\ task[p].pc # "analyze"
                /\ task[p].pc = "generate" => task[p].prompt = DefaultPrompt
                /\ task[p].pc = "done" => task[p].result = FreeformText(p, DefaultPrompt))
    /\ [][\A p \in Pages :
            (task[p].pc = "idle" /\ task'[p].pc # "idle")
                => gh'[p].started_detailed = detailed_extraction]_vars

\* A page's invalid analysis response cleared the flag, and a page that
\* started afterwards returned the text of the default prompt.
C4_Witness ==
    \E p, q \in Pages :
        /\ p # q
        /\ gh[p].analysis = "invalid"
        /\ gh[p].started_detailed
        /\ ~gh[q].started_detailed
        /\ task[q].pc = "done"
        /\ task[q].result = FreeformText(q, DefaultPrompt)

\* C5: a model call raises only when all MaxAttempts attempts of it fail: a
\* call whose first one or two attempts fail and whose next succeeds returns.
C5_TransientFailureRecovered ==
    \A p \in Pages :
        gh[p].failed_call \in {"structured", "freeform"} =>
            gh[p].failed_plan >= MaxAttempts

\* C6: no call is attempted more than MaxAttempts times, and a call whose
\* attempts all fail raises LLMError after exactly MaxAttempts attempts.
C6_RaisesAfterThreeAttempts ==
    \A p \in Pages :
        /\ gh[p].struct_attempts <= MaxAttempts * gh[p].struct_calls
        /\ gh[p].free_attempts <= MaxAttempts * gh[p].free_calls
        /\ (gh[p].failed_call = "structured" /\ gh[p].failed_plan = MaxAttempts) =>
              /\ gh[p].struct_attempts = MaxAttempts
              /\ task[p].exc.type = "LLMError"
        /\ (gh[p].failed_call = "freeform" /\ gh[p].failed_plan = MaxAttempts) =>
              /\ gh[p].free_attempts = MaxAttempts
              /\ task[p].exc.type = "LLMError"

\* C7: when the freeform call of page p, every attempt of which fails, is
\* what fails the conversion, the caller gets a VisionParserError that names
\* page p and wraps the LLMError.
C7_GenerateFailureIsConversionError ==
    \A p \in Pages :
        (Raised /\ gh[p].failed_call = "freeform"
                /\ gh[p].failed_plan = MaxAttempts
                /\ \A q \in Pages \ {p} : task[q].pc # "raised") =>
            /\ outcome.error.type = "VisionParserError"
            /\ outcome.error.page = p + 1
            /\ outcome.error.cause = "LLMError"

\* C8: a page whose analysis says text_detected = "No" returns the empty
\* markdown without a freeform call and without image extraction, its entry
\* of the returned list is empty, and the step leaves the flag as it was.
C8_ShortCircuit ==
    /\ [](\A p \in Pages :
            (task[p].pc \in {"generate", "done"} /\ gh[p].struct_calls = 1
                /\ stub[p].valid /\ stub[p].text_detected = "No") =>
                /\ task[p].pc = "done"
                /\ task[p].result = <<>>
                /\ gh[p].free_calls = 0
                /\ gh[p].free_attempts = 0
                /\ gh[p].extract_calls = 0
                /\ Returned => outcome.pages[p + 1] = <<>>)
    /\ [][\A p \in Pages :
            (task[p].pc = "analyze" /\ task'[p].pc = "done")
                => detailed_extraction' = detailed_extraction]_vars

\* A conversion with an image mode returned, one page of which was
\* short-circuited although its analysis reported images.
C8_Witness ==
    /\ Returned
    /\ image_mode # "none"
    /\ detailed_extraction
    /\ \E p \in Pages :
         /\ gh[p].analysis = "no_text"
         /\ stub[p].images_detected = "Yes"
         /\ outcome.pages[p + 1] = <<>>

\* C9: a returned list has one entry per page of a PDF and exactly one
\* entry, that of page 0, for an image file.
C9_OneEntryPerPage ==
    Returned =>
        IF file.suffix = ".pdf"
        THEN Len(outcome.pages) = file.page_count
        ELSE /\ Len(outcome.pages) = 1
             /\ outcome.pages[1] = task[0].result

\* A concurrent conversion of a PDF returned with a short-circuited page and
\* a fallback page among its entries.
C9_Witness ==
    /\ Returned
    /\ file.suffix = ".pdf"
    /\ enable_concurrency
    /\ Len(outcome.pages) = file.page_count
    /\ \E p, q \in Pages :
         /\ gh[p].analysis = "no_text"
         /\ gh[q].analysis = "invalid"

\* C10: two conversions of the same file on the same parser that both
\* return give the same list.
C10_RepeatedRunsAgree ==
    (Returned /\ prev.status = "returned") => outcome.pages = prev.pages

\* ---- C11..C13: scheduling ------------------------------------------------
InFlight(p) == task[p].pc \in {"analyze", "generate"}
IsPdf == file.exists /\ file.suffix = ".pdf"

\* C11: with concurrency enabled batches run strictly one after another in
\* submission order: whenever a page of a later batch has started, every
\* page of every earlier batch has produced its result, and the batches were
\* submitted in increasing page order.
C11_BatchesNeverInterleave ==
    (IsPdf /\ enable_concurrency) =>
        /\ \A p, q \in Pages :
              (p \div num_workers < q \div num_workers
                    /\ task[q].pc # "idle") => task[p].pc = "done"
        /\ \A k \in 1..(Len(batches) - 1) :
              batches[k].start + batches[k].size = batches[k + 1].start

\* A page of the second batch is in flight after a first batch of several
\* pages that completed out of page order.
C11_Witness ==
    /\ IsPdf /\ enable_concurrency /\ dpc = "batch"
    /\ Len(batches) = 2 /\ batches[1].size > 1
    /\ \E q \in Window : InFlight(q)
    /\ \E a, b \in 1..Len(completed) : a < b /\ completed[a] > completed[b]

\* Ceiling of n / w.
CeilDiv(n, w) == (n + w - 1) \div w

\* C12: with concurrency enabled and W workers an N-page document is cut
\* into ceil(N / W) consecutive, disjoint batches that cover all pages, each
\* of W pages except possibly the last, and at most W pages are in flight.
C12_Partition ==
    (IsPdf /\ enable_concurrency) =>
        /\ Len(batches) <= CeilDiv(file.page_count, num_workers)
        /\ \A k \in 1..Len(batches) :
              /\ batches[k].start = (k - 1) * num_workers
              /\ batches[k].size >= 1
              /\ batches[k].size <= num_workers
              /\ batches[k].start + batches[k].size <= file.page_count
              /\ batches[k].size < num_workers =>
                    batches[k].start + batches[k].size = file.page_count
        /\ Returned =>
              /\ Len(batches) = CeilDiv(file.page_count, num_workers)
              /\ file.page_count > 0 =>
                    batches[Len(batches)].start + batches[Len(batches)].size
                        = file.page_count
        /\ Cardinality({p \in Pages : InFlight(p)}) <= num_workers
        /\ dpc = "batch" => \A p \in Pages : InFlight(p) => p \in Window

\* A returned conversion whose last batch is shorter than the others.
C12_Witness ==
    /\ IsPdf /\ enable_concurrency /\ Returned
    /\ Len(batches) > 1
    /\ batches[1].size = num_workers /\ num_workers > 1
    /\ batches[Len(batches)].size < num_workers

\* C13: with concurrency disabled at most one model call is in flight at
\* any time, and a page starts only after every earlier page has produced
\* its result.
C13_OneAtATime ==
    (file.exists /\ Supported(file.suffix) /\ ~enable_concurrency) =>
        /\ Cardinality({p \in Pages : InFlight(p)}) <= 1
        /\ \A p, q \in Pages :
              (p < q /\ task[q].pc # "idle") => task[p].pc = "done"
        /\ batches = <<>>

\* The second page's call is in flight after the first page's result.
C13_Witness ==
    /\ IsPdf /\ ~enable_concurrency /\ dpc = "seq"
    /\ i > 0 /\ InFlight(i)
    /\ \A p \in 0..(i - 1) : task[p].pc = "done"

\* ---- C14: image references ----------------------------------------------
IsRef(tok) == tok.kind = "ref"
RefsOf(md) == SelectSeq(md, IsRef)

\* C14: with image extraction off no page carries an image reference; in
\* location mode a page with extracted images ends with one reference per
\* image, in extraction order, whose target is the image's location; in
\* inline mode the target is the image's inline payload.
C14_ImageModeLaw ==
    \A p \in Pages :
        task[p].pc = "done" =>
            LET md == task[p].result
                imgs == ExtractImages(p, image_mode)
            IN /\ image_mode = "none" => RefsOf(md) = <<>>
               /\ gh[p].extract_calls = 0 => RefsOf(md) = <<>>
               /\ gh[p].extract_calls = 1 =>
                     /\ Len(md) = 1 + Len(imgs)
                     /\ md[1].kind = "text"
                     /\ \A k \in 1..Len(imgs) :
                           /\ md[1 + k].kind = "ref"
                           /\ md[1 + k].label = imgs[k].image_url
                           /\ image_mode = "url" =>
                                 md[1 + k].target = imgs[k].image_url
                           /\ image_mode = "base64" =>
                                 md[1 + k].target = imgs[k].base64_encoded

\* In inline mode a page with extracted images was generated.
C14_Witness ==
    /\ image_mode = "base64"
    /\ \E p \in Pages :
          /\ task[p].pc = "done"
          /\ gh[p].extract_calls = 1
          /\ RefsOf(task[p].result) # <<>>

\* ---- C15: input resolution ----------------------------------------------
Unresolvable == ~file.exists \/ file.suffix = ".docx"

\* C15: a conversion of a path that does not exist raises FileNotFoundError,
\* one of an existing file with an unsupported extension raises
\* UnsupportedFileError; either way no page is started, no model call is
\* made and the detailed-extraction flag keeps its value.
C15_InputResolution ==
    /\ [](Unresolvable =>
            /\ dpc \in {"ready", "raised"}
            /\ dpc = "raised" =>
                  /\ Raised
                  /\ outcome.error.type =
                        IF ~file.exists THEN "FileNotFoundError"
                        ELSE "UnsupportedFileError"
            /\ batches = <<>> /\ completed = <<>>
            /\ \A p \in Pages : task[p] = IdleTask /\ gh[p] = IdleHist)
    /\ [][Unresolvable => detailed_extraction' = detailed_extraction]_vars

\* An existing .docx was refused while the flag was on.
C15_Witness ==
    /\ file.exists /\ file.suffix = ".docx"
    /\ Raised /\ outcome.error.type = "UnsupportedFileError"
    /\ detailed_extraction

\* ---- C16, C20: the shared flag under concurrency -------------------------
\* C16: a page whose own structured call succeeded with text detected sends
\* the prompt built from its own description, also when another page of the
\* batch cleared the flag while this page was suspended.
C16_OwnDescriptionSurvivesRace ==
    \A p \in Pages :
        (gh[p].started_detailed /\ gh[p].analysis = "ok")
            => gh[p].source = "description"

\* ---- C17: rendering failure ----------------------------------------------
OnlyFailure(p, call) ==
    /\ gh[p].failed_call = call
    /\ \A q \in Pages \ {p} : gh[q].failed_call = "none"

\* C17: a PDF page whose rendering fails makes the conversion raise a
\* VisionParserError that names the 1-based page and carries the rendering
\* error; the cleanup does not replace it.
C17_RenderFailureNamesPage ==
    \A p \in Pages :
        (IsPdf /\ Raised /\ OnlyFailure(p, "render")) =>
            outcome.error = Exc("VisionParserError", p + 1, "RuntimeError")

\* ---- C18: no timeout -----------------------------------------------------
Ends == outcome.status = "none" /\ outcome'.status # "none"

\* C18 (as stated): while a model call is in flight its batch does not
\* complete, no later batch starts and the conversion neither returns nor
\* raises.
C18_StalledCallBlocksRun ==
    [][(\E p \in Pages : InFlight(p)) => (i' = i /\ ~Ends)]_vars

\* C18 (amended): while a model call is in flight its batch does not
\* complete, no later batch starts and the conversion does not return; it
\* raises only with the failure of another page of the same batch.
C18_StalledCallBlocksBatch ==
    [][\A p \in Pages :
          InFlight(p) =>
              /\ i' = i
              /\ converted_pages' = converted_pages
              /\ outcome'.status # "returned"
              /\ Ends => /\ outcome'.status = "raised"
                         /\ \E q \in Window \ {p} : task[q].pc = "raised"]_vars

\* One call of a first batch of several pages is still in flight when all
\* its siblings are done and a later batch is waiting.
C18_Witness ==
    /\ dpc = "batch" /\ i = 0 /\ BatchSize(i) > 1
    /\ NextBatch(i) < file.page_count
    /\ \E p \in Window :
          /\ InFlight(p)
          /\ \A q \in Window \ {p} : task[q].pc = "done"
    /\ \A q \in Pages \ Window : task[q].pc = "idle"

\* ---- C19: termination ----------------------------------------------------
\* The event loop runs every task that can run, and every attempt is
\* answered: a step that stays possible is eventually taken.
SpecFair == Init /\ [][Next]_vars /\ WF_vars(Next)

\* C19: if every attempt is answered the conversion ends, returning or
\* raising, after at most one structured and one freeform call per page
\* and at most six attempts per page.
C19_Terminates ==
    /\ <>(Returned \/ Raised)
    /\ [](\A p \in Pages :
            /\ gh[p].struct_calls <= 1
            /\ gh[p].free_calls <= 1
            /\ gh[p].struct_attempts <= MaxAttempts * gh[p].struct_calls
            /\ gh[p].free_attempts <= MaxAttempts * gh[p].free_calls
            /\ gh[p].struct_attempts + gh[p].free_attempts <= 2 * MaxAttempts)

\* A returned conversion with a page that made both calls.
C19_Witness ==
    /\ Returned
    /\ \E p \in Pages :
          /\ gh[p].struct_calls = 1 /\ gh[p].free_calls = 1
          /\ gh[p].struct_attempts >= 1 /\ gh[p].free_attempts >= 1

\* C20: a page generated from the default prompt carries no image reference.
C20_DefaultPromptHasNoRefs ==
    \A p \in Pages :
        (task[p].pc = "done" /\ gh[p].source = "defaults")
            => RefsOf(task[p].result) = <<>>

\* ---- C21: when images are extracted --------------------------------------
\* C21: images are extracted for a page only when the page's own structured
\* analysis succeeded and reported text and images and an image mode is
\* configured; never for a page that started with detailed extraction off;
\* and at most once per page.
C21_ExtractionOnlyWhenReported ==
    \A p \in Pages :
        /\ gh[p].extract_calls <= 1
        /\ ~gh[p].started_detailed => gh[p].extract_calls = 0
        /\ gh[p].extract_calls = 1 =>
              /\ gh[p].started_detailed
              /\ gh[p].struct_calls = 1
              /\ gh[p].analysis = "ok"
              /\ stub[p] = Description("Yes", "Yes", p)
              /\ image_mode # "none"

\* In location mode a page's images were extracted and its freeform call is
\* in flight.
C21_Witness ==
    /\ image_mode = "url"
    /\ \E p \in Pages :
          /\ gh[p].extract_calls = 1
          /\ task[p].pc = "generate"
          /\ task[p].extracted_images # <<>>
====
